---------------------------- MODULE Spec2Model ----------------------------
(***************************************************************************)
(* Basis-gate synthesis of one- and two-qubit unitaries and of their       *)
(* controlled versions (the two notebooks of terra/qis_intro).             *)
(*                                                                         *)
(* Numbers.  The notebooks compute with double-precision complex numbers.  *)
(* The model computes exactly on a lattice of them: the ring Z[zeta][1/2]  *)
(* with zeta = e^{i pi/8}.  It holds every matrix entry, every e^{i x},    *)
(* cos x and sin x the circuits below need when the angles are multiples   *)
(* of pi/8.  Angles themselves are integers in units of pi/Pi (they are    *)
(* real numbers in the code, never reduced modulo 2 pi), or NaN.           *)
(*                                                                         *)
(* Library.  The gates have the matrices the notebooks state for them; the *)
(* simulator multiplies them.  What the libraries leave open is a choice:  *)
(* the order of the eigenvectors of LA.eig and, within the eigenspace of a *)
(* repeated eigenvalue, whether they are orthogonal; the global phase of   *)
(* the circuits of two_qubit_cnot_decompose, and what it does with a       *)
(* matrix that is not unitary; and whether rz runs as Rz or u1.            *)
(***************************************************************************)
EXTENDS Integers, Sequences, FiniteSets, TLC

\* cmath.pi, in angle units: one unit is pi/32.
Pi == 32

Turn == 2 * Pi
\* zeta^H = -1: an element of the ring is the vector of its H coefficients
\* on 1, zeta, ..., zeta^(H-1).
H == Pi \div 4
\* zeta = e^{i Step units}
Step == Pi \div H

Idx == 0 .. (H - 1)

----------------------------------------------------------------------------
(* The ring Z[zeta]: complex addition, multiplication and conjugation.     *)

RZero == [k \in Idx |-> 0]

ROne == [k \in Idx |-> IF k = 0 THEN 1 ELSE 0]

\* zeta^j for any integer j
RMono(j) ==
    LET r == j % (2 * H)
    IN  [k \in Idx |-> IF r < H THEN (IF k = r THEN 1 ELSE 0)
                                 ELSE (IF k = r - H THEN -1 ELSE 0)]

RAdd(x, y) == [k \in Idx |-> x[k] + y[k]]

RNeg(x) == [k \in Idx |-> -x[k]]

RSub(x, y) == [k \in Idx |-> x[k] - y[k]]

RScale(c, x) == [k \in Idx |-> c * x[k]]

\* the coefficient of zeta^j in y, for j in -(H-1) .. H-1
Wrap(y, j) == IF j >= 0 THEN y[j] ELSE -y[j + H]

RECURSIVE ConvAt(_, _, _, _)
ConvAt(x, y, k, i) ==
    IF i < 0 THEN 0
    ELSE (IF x[i] = 0 THEN 0 ELSE x[i] * Wrap(y, k - i)) + ConvAt(x, y, k, i - 1)

RMul(x, y) ==
    IF x = RZero \/ y = RZero THEN RZero
    ELSE [k \in Idx |-> ConvAt(x, y, k, H - 1)]

\* conj(zeta^k) = zeta^(-k) = -zeta^(H-k)
RConj(x) == [k \in Idx |-> IF k = 0 THEN x[0] ELSE -x[H - k]]

RECURSIVE Pow2(_)
Pow2(e) == IF e = 0 THEN 1 ELSE 2 * Pow2(e - 1)

----------------------------------------------------------------------------
(* Complex scalars: v / 2^e with v in Z[zeta].                             *)

C(v, e) == [v |-> v, e |-> e]

CZero == C(RZero, 0)

COne == C(ROne, 0)

CIsZero(z) == z.v = RZero

CEq(x, y) == RScale(Pow2(y.e), x.v) = RScale(Pow2(x.e), y.v)

CAdd(x, y) == C(RAdd(RScale(Pow2(y.e), x.v), RScale(Pow2(x.e), y.v)), x.e + y.e)

CSub(x, y) == C(RSub(RScale(Pow2(y.e), x.v), RScale(Pow2(x.e), y.v)), x.e + y.e)

CMul(x, y) == C(RMul(x.v, y.v), x.e + y.e)

CNeg(x) == C(RNeg(x.v), x.e)

CConj(x) == C(RConj(x.v), x.e)

\* e^{i x} for an angle x (in units) that is a multiple of Step
ExpOf(x) == CHOOSE k \in 0 .. (2 * H - 1) : k * Step = x % Turn

Cis(x) == C(RMono(ExpOf(x)), 0)

\* cos x = (e^{ix} + e^{-ix}) / 2 ;  sin x = -i (e^{ix} - e^{-ix}) / 2
Cos(x) == C(RAdd(RMono(ExpOf(x)), RMono(-ExpOf(x))), 1)

Sin(x) == C(RMul(RMono(-(H \div 2)), RSub(RMono(ExpOf(x)), RMono(-ExpOf(x)))), 1)


\* 100 cos(k pi/8), rounded: the real part of zeta^k, for telling the sign
\* and the rough size of a number.
CosTab == <<100, 92, 71, 38, 0, -38, -71, -92>>

RECURSIVE TabSum(_, _, _)
TabSum(v, tab, k) == IF k < 0 THEN 0 ELSE v[k] * tab[k + 1] + TabSum(v, tab, k - 1)

\* 100 Re z, to about one part in a hundred
ApproxRe(z) == TabSum(z.v, CosTab, H - 1) \div Pow2(z.e)

IsPosReal(z) == z.v = RConj(z.v) /\ TabSum(z.v, CosTab, H - 1) > 0

----------------------------------------------------------------------------
(* Floating-point angles: a number of angle units, or NaN.                 *)

Num(v) == [t |-> "num", v |-> v]

NaN == [t |-> "nan", v |-> 0]

IsNaN(x) == x.t = "nan"

FAdd(x, y) == IF IsNaN(x) \/ IsNaN(y) THEN NaN ELSE Num(x.v + y.v)

FSub(x, y) == IF IsNaN(x) \/ IsNaN(y) THEN NaN ELSE Num(x.v - y.v)

FNeg(x) == IF IsNaN(x) THEN NaN ELSE Num(-x.v)

\* c * x for an integer c
FTimes(c, x) == IF IsNaN(x) THEN NaN ELSE Num(c * x.v)

\* 0.5 * x, exact: the angle must be an even number of units
FHalf(x) == IF IsNaN(x) THEN NaN ELSE Num(CHOOSE h \in {x.v \div 2} : 2 * h = x.v)

----------------------------------------------------------------------------
(* numpy on complex scalars                                                *)

\* zeta^j x: the coefficients of x moved by j places, with zeta^H = -1
RShift(x, j) ==
    [k \in Idx |-> LET i == (k - j) % (2 * H) IN IF i < H THEN x[i] ELSE -x[i - H]]

\* the k with z = |z| zeta^k, for z # 0 on the lattice
PhaseIdx(z) == CHOOSE k \in 0 .. (2 * H - 1) : IsPosReal(C(RShift(z.v, -k), z.e))

\* np.angle(z): the argument in (-pi, pi]; np.angle(0) = 0
np_angle(z) ==
    IF CIsZero(z) THEN Num(0)
    ELSE LET x == PhaseIdx(z) * Step
         IN  Num(IF x > Pi THEN x - Turn ELSE x)

\* np.absolute(z), a non-negative real of the ring
np_absolute(z) == IF CIsZero(z) THEN CZero ELSE C(RShift(z.v, -PhaseIdx(z)), z.e)

\* x / y in IEEE arithmetic: a quotient, or inf (x/0, x # 0), or nan (0/0)
np_divide(x, y) ==
    IF ~CIsZero(y) THEN [t |-> "num", n |-> x, d |-> y]
    ELSE IF CIsZero(x) THEN [t |-> "nan", n |-> x, d |-> y]
    ELSE [t |-> "inf", n |-> x, d |-> y]

\* the floating-point warning a division raises, if any
DivideWarning(x, y) ==
    IF ~CIsZero(y) THEN {}
    ELSE IF CIsZero(x) THEN {"invalid value encountered"}
    ELSE {"divide by zero encountered"}

\* np.angle of a complex quotient: arg(n/d) = arg(n conj(d)); the quotient
\* by zero of a complex number has a NaN part, and so has its angle
np_angle_of(q) == IF q.t = "num" THEN np_angle(CMul(q.n, CConj(q.d))) ELSE NaN

\* np.arctan of a quotient of non-negative reals: the angle t in [0, pi/2)
\* with n cos t = d sin t; arctan(inf) = pi/2; arctan(nan) = nan
np_arctan(q) ==
    CASE q.t = "nan" -> NaN
      [] q.t = "inf" -> Num(Pi \div 2)
      [] OTHER -> Num(CHOOSE t \in {k * Step : k \in 0 .. (H \div 2 - 1)} :
                        CEq(CMul(q.n, Cos(t)), CMul(q.d, Sin(t))))

----------------------------------------------------------------------------
(* numpy on arrays.  An array is its shape, its entries m[i][j] (ring      *)
(* vectors) and the exponent e of their common denominator 2^e; nan marks  *)
(* an array whose entries are NaN.                                         *)

Arr(r, c, e, m) == [type |-> "ndarray", shape |-> <<r, c>>, e |-> e, m |-> m, nan |-> FALSE]

NaNArr(r, c) ==
    [type |-> "ndarray", shape |-> <<r, c>>, e |-> 0,
     m |-> [i \in 0 .. (r - 1) |-> [j \in 0 .. (c - 1) |-> RZero]], nan |-> TRUE]

Rows(A) == A.shape[1]

Cols(A) == A.shape[2]

\* U[i,j]
At(A, i, j) == C(A.m[i][j], A.e)

np_eye(n) ==
    Arr(n, n, 0, [i \in 0 .. (n - 1) |-> [j \in 0 .. (n - 1) |-> IF i = j THEN ROne ELSE RZero]])

np_zeros(r, c) == Arr(r, c, 0, [i \in 0 .. (r - 1) |-> [j \in 0 .. (c - 1) |-> RZero]])

np_conjugate(A) ==
    [A EXCEPT !.m = [i \in 0 .. (Rows(A) - 1) |-> [j \in 0 .. (Cols(A) - 1) |-> RConj(A.m[i][j])]]]

np_transpose(A) ==
    [A EXCEPT !.shape = <<Cols(A), Rows(A)>>,
              !.m = [i \in 0 .. (Cols(A) - 1) |-> [j \in 0 .. (Rows(A) - 1) |-> A.m[j][i]]]]

\* the same array written with the least denominator
RECURSIVE Lowest(_)
Lowest(A) ==
    IF A.e > 0 /\ \A i \in DOMAIN A.m : \A j \in DOMAIN A.m[i] : \A k \in Idx : A.m[i][j][k] % 2 = 0
    THEN Lowest([A EXCEPT !.e = A.e - 1,
                          !.m = [i \in DOMAIN A.m |-> [j \in DOMAIN A.m[i] |->
                                    [k \in Idx |-> A.m[i][j][k] \div 2]]]])
    ELSE A

RECURSIVE DotAt(_, _, _, _, _)
DotAt(A, B, i, j, k) ==
    IF k < 0 THEN RZero
    ELSE IF A[i][k] = RZero \/ B[k][j] = RZero THEN DotAt(A, B, i, j, k - 1)
    ELSE RAdd(RMul(A[i][k], B[k][j]), DotAt(A, B, i, j, k - 1))

\* np.matmul(A, B) and A.dot(B)
np_matmul(A, B) ==
    IF A.nan \/ B.nan THEN NaNArr(Rows(A), Cols(B))
    ELSE Lowest(Arr(Rows(A), Cols(B), A.e + B.e,
                    [i \in 0 .. (Rows(A) - 1) |->
                        [j \in 0 .. (Cols(B) - 1) |-> DotAt(A.m, B.m, i, j, Cols(A) - 1)]]))

RECURSIVE TraceTo(_, _)
TraceTo(m, k) == IF k < 0 THEN RZero ELSE RAdd(m[k][k], TraceTo(m, k - 1))

\* np.trace(A): a complex scalar, or NaN
np_trace(A) ==
    IF A.nan THEN [t |-> "nan", z |-> CZero]
    ELSE [t |-> "num", z |-> C(TraceTo(A.m, Rows(A) - 1), A.e)]

\* the same matrix, whatever the denominators are written as
SameArr(A, B) ==
    /\ A.shape = B.shape
    /\ ~A.nan /\ ~B.nan
    /\ \A i \in 0 .. (Rows(A) - 1) : \A j \in 0 .. (Cols(A) - 1) : CEq(At(A, i, j), At(B, i, j))

\* np.allclose(A, B): |a - b| <= 1e-8 + 1e-5 |b| in every entry, false on a
\* NaN.  Two numbers of the lattice are equal or differ by far more than
\* that tolerance, so on the lattice this is equality.
np_allclose(A, B) == SameArr(A, B)

\* np.hstack((A, B)) and np.vstack((A, B)) of arrays with one denominator
np_hstack(A, B) ==
    Arr(Rows(A), Cols(A) + Cols(B), A.e + B.e,
        [i \in 0 .. (Rows(A) - 1) |-> [j \in 0 .. (Cols(A) + Cols(B) - 1) |->
            IF j < Cols(A) THEN RScale(Pow2(B.e), A.m[i][j])
            ELSE RScale(Pow2(A.e), B.m[i][j - Cols(A)])]])

np_vstack(A, B) ==
    Arr(Rows(A) + Rows(B), Cols(A), A.e + B.e,
        [i \in 0 .. (Rows(A) + Rows(B) - 1) |-> [j \in 0 .. (Cols(A) - 1) |->
            IF i < Rows(A) THEN RScale(Pow2(B.e), A.m[i][j])
            ELSE RScale(Pow2(A.e), B.m[i - Rows(A)][j])]])

----------------------------------------------------------------------------
(* Gates.  The matrices are the ones the notebooks state for u3, rz and ry *)
(* and for their controlled versions; qubit 0 is the least significant bit *)
(* of a row index.                                                         *)

\* the 2x2 array [[z00, z01], [z10, z11]] of complex scalars
Arr2(z00, z01, z10, z11) ==
    LET z == <<<<z00, z01>>, <<z10, z11>>>>
        e == z00.e + z01.e + z10.e + z11.e
    IN  Lowest(Arr(2, 2, e, [i \in 0 .. 1 |-> [j \in 0 .. 1 |->
                   RScale(Pow2(e - z[i + 1][j + 1].e), z[i + 1][j + 1].v)]]))

\* half an angle that is a whole number of steps when halved
Half(x) == CHOOSE h \in {x \div 2} : 2 * h = x /\ h % Step = 0

\* U3(theta, phi, lambda)
U3Matrix(theta, phi, lamda) ==
    IF IsNaN(theta) \/ IsNaN(phi) \/ IsNaN(lamda) THEN NaNArr(2, 2)
    ELSE LET c == Cos(Half(theta.v))
             s == Sin(Half(theta.v))
         IN  Arr2(c, CNeg(CMul(Cis(lamda.v), s)),
                  CMul(Cis(phi.v), s), CMul(Cis(lamda.v + phi.v), c))

\* Rz(phi) = diag(e^{-i phi/2}, e^{i phi/2})
RzMatrix(phi) ==
    IF IsNaN(phi) THEN NaNArr(2, 2)
    ELSE Arr2(Cis(-Half(phi.v)), CZero, CZero, Cis(Half(phi.v)))

\* Ry(gamma) = [[cos gamma/2, -sin gamma/2], [sin gamma/2, cos gamma/2]]
RyMatrix(gamma) ==
    IF IsNaN(gamma) THEN NaNArr(2, 2)
    ELSE LET c == Cos(Half(gamma.v))
             s == Sin(Half(gamma.v))
         IN  Arr2(c, CNeg(s), s, c)

XMatrix == Arr2(CZero, COne, COne, CZero)

\* the controlled version of a one-qubit gate G, on <<control, target>>
Controlled(G) ==
    IF G.nan THEN NaNArr(4, 4)
    ELSE Arr(4, 4, G.e,
             [x \in 0 .. 3 |-> [y \in 0 .. 3 |->
                 IF x % 2 # y % 2 THEN RZero
                 ELSE IF x % 2 = 0
                      THEN (IF x = y THEN RScale(Pow2(G.e), ROne) ELSE RZero)
                      ELSE G.m[x \div 2][y \div 2]]])

\* one instruction of a circuit
Gate(name, params, qubits, mat) ==
    [name |-> name, params |-> params, qubits |-> qubits, mat |-> mat]

u3(theta, phi, lamda, q) == Gate("u3", <<theta, phi, lamda>>, <<q>>, U3Matrix(theta, phi, lamda))

rz(phi, q) == Gate("rz", <<phi>>, <<q>>, RzMatrix(phi))

ry(gamma, q) == Gate("ry", <<gamma>>, <<q>>, RyMatrix(gamma))

cx(c, t) == Gate("cx", <<>>, <<c, t>>, Controlled(XMatrix))

crz(phi, c, t) == Gate("crz", <<phi>>, <<c, t>>, Controlled(RzMatrix(phi)))

cu3(theta, phi, lamda, c, t) ==
    Gate("cu3", <<theta, phi, lamda>>, <<c, t>>, Controlled(U3Matrix(theta, phi, lamda)))

\* QuantumCircuit(n) with the instructions appended so far
QuantumCircuit(n, data) == [n |-> n, data |-> data]

Bit(x, q) == (x \div Pow2(q)) % 2

RECURSIVE Local(_, _, _)
Local(x, qubits, k) ==
    IF k > Len(qubits) THEN 0
    ELSE Bit(x, qubits[k]) * Pow2(k - 1) + Local(x, qubits, k + 1)

\* the matrix of a gate on all n qubits of the circuit
Embed(g, n) ==
    LET on == {g.qubits[k] : k \in DOMAIN g.qubits}
        off == (0 .. (n - 1)) \ on
        N == Pow2(n)
    IN  IF g.mat.nan THEN NaNArr(N, N)
        ELSE Arr(N, N, g.mat.e,
                 [x \in 0 .. (N - 1) |-> [y \in 0 .. (N - 1) |->
                     IF \A q \in off : Bit(x, q) = Bit(y, q)
                     THEN g.mat.m[Local(x, g.qubits, 1)][Local(y, g.qubits, 1)]
                     ELSE RZero]])

\* u1(phi) = diag(1, e^{i phi}), which is Rz(phi) up to the phase e^{i phi/2}
U1Matrix(phi) ==
    IF IsNaN(phi) THEN NaNArr(2, 2)
    ELSE Arr2(COne, CZero, CZero, Cis(phi.v))

\* The simulator runs rz either as the Rz matrix above or, where the
\* installed library defines rz(phi) as u1(phi), as u1.
RzConventions == {"rz", "u1"}

MatrixOf(g, conv) ==
    IF g.name = "rz" /\ conv = "u1" THEN U1Matrix(g.params[1]) ELSE g.mat

\* the unitary simulator: the product of the gates, the last one leftmost
RECURSIVE Simulate(_, _, _)
Simulate(qc, k, conv) ==
    IF k = 0 THEN np_eye(Pow2(qc.n))
    ELSE np_matmul(Embed([qc.data[k] EXCEPT !.mat = MatrixOf(qc.data[k], conv)], qc.n),
                   Simulate(qc, k - 1, conv))

get_unitary(qc, conv) == Simulate(qc, Len(qc.data), conv)

HasRz(qc) == \E k \in DOMAIN qc.data : qc.data[k].name = "rz"

----------------------------------------------------------------------------
(* The functions of the two notebooks.                                     *)

\* is_unitary(A): np.allclose(np.eye(A.shape[0]), A.dot(A^dagger))
is_unitary(A) ==
    np_allclose(np_eye(Rows(A)), np_matmul(A, np_transpose(np_conjugate(A))))

\* eta = np.angle(U[1,1] / np.conjugate(a))
Eta(A) == np_angle_of(np_divide(At(A, 1, 1), CConj(At(A, 0, 0))))

\* 2 * np.arctan(np.absolute(b) / np.absolute(a))
PolarAngle(A) ==
    FTimes(2, np_arctan(np_divide(np_absolute(At(A, 0, 1)), np_absolute(At(A, 0, 0)))))

\* the floating-point warnings of the two divisions above
ParamWarnings(A) ==
    DivideWarning(At(A, 1, 1), CConj(At(A, 0, 0)))
        \cup DivideWarning(np_absolute(At(A, 0, 1)), np_absolute(At(A, 0, 0)))

\* find_params with phi and lamda handed back in each other's place
find_params_swapped(A) ==
    LET a == At(A, 0, 0)
        b == At(A, 0, 1)
        lamda == FAdd(FSub(Num(-Pi), np_angle(a)), np_angle(b))
        phi == FSub(FSub(FAdd(Num(Pi), Eta(A)), np_angle(a)), np_angle(b))
    IN  <<PolarAngle(A), lamda, phi>>

\* find_params(U), after its checks: [theta, phi, lamda]
find_params(A) ==
    LET a == At(A, 0, 0)
        b == At(A, 0, 1)
        eta == Eta(A)
        theta == PolarAngle(A)
        lamda == FAdd(FSub(Num(-Pi), np_angle(a)), np_angle(b))
        phi == FSub(FSub(FAdd(Num(Pi), eta), np_angle(a)), np_angle(b))
    IN  <<theta, phi, lamda>>

\* ZYZ_decompose(U), after its checks: [alpha, beta, gamma, delta]
ZYZ_decompose(A) ==
    LET a == At(A, 0, 0)
        b == At(A, 0, 1)
        eta == Eta(A)
        alpha == FHalf(eta)
        beta == FSub(FSub(FAdd(Num(Pi), eta), np_angle(a)), np_angle(b))
        gamma == PolarAngle(A)
        delta == FSub(FAdd(Num(-Pi), np_angle(b)), np_angle(a))
    IN  <<alpha, beta, gamma, delta>>

\* find_params_2 with the lamda of find_params
find_params_2_plain_lamda(A) ==
    LET a == At(A, 0, 0)
        b == At(A, 0, 1)
        eta == Eta(A)
        theta == PolarAngle(A)
        lamda == FAdd(FSub(Num(-Pi), np_angle(a)), np_angle(b))
        phi == FSub(FSub(FAdd(Num(Pi), eta), np_angle(a)), np_angle(b))
        mu == FNeg(np_angle(a))
    IN  <<theta, phi, lamda, mu>>

\* find_params_2(U), after its checks: [theta, phi, lamda, mu]
find_params_2(A) ==
    LET a == At(A, 0, 0)
        b == At(A, 0, 1)
        eta == Eta(A)
        theta == PolarAngle(A)
        lamda == FAdd(FAdd(Num(-Pi), np_angle(a)), np_angle(b))
        phi == FSub(FSub(FAdd(Num(Pi), eta), np_angle(a)), np_angle(b))
        mu == FNeg(np_angle(a))
    IN  <<theta, phi, lamda, mu>>

\* controlled_matrix(U) of the one-qubit notebook: [[eye(2), 0], [0, U]]
controlled_matrix(A) ==
    np_vstack(np_hstack(np_eye(2), np_zeros(2, 2)), np_hstack(np_zeros(2, 2), A))

\* controlled_matrix(U) of the two-qubit notebook: [[eye(4), 0], [0, U]]
controlled_matrix_8(A) ==
    np_vstack(np_hstack(np_eye(4), np_zeros(4, 4)), np_hstack(np_zeros(4, 4), A))

IsDiagonal(A) == \A i, j \in 0 .. (Rows(A) - 1) : i # j => A.m[i][j] = RZero

\* (1/sqrt 2) [[I, I], [I, -I]]: a Hadamard gate on qubit 1, a real basis of
\* unit vectors
HadamardBasis ==
    Arr(4, 4, 1, [i \in 0 .. 3 |-> [j \in 0 .. 3 |->
        IF i % 2 # j % 2 THEN RZero
        ELSE IF i \div 2 = 1 /\ j \div 2 = 1 THEN RNeg(Cos(Pi \div 4).v)
        ELSE Cos(Pi \div 4).v]])

\* the orders in which the eigenvectors may come
Orders == {<<0, 1, 2, 3>>, <<1, 0, 3, 2>>, <<3, 2, 1, 0>>}

\* A with its columns in the order o
Columns(A, o) == [A EXCEPT !.m = [i \in 0 .. 3 |-> [j \in 0 .. 3 |-> A.m[i][o[j + 1]]]]]

\* D = np.matmul(np.matmul(v.conj().T, U), v)
Diagonalized(A, v) == np_matmul(np_matmul(np_transpose(np_conjugate(v)), A), v)

\* orthonormal eigenvectors of the discrete Fourier transform on 4 points,
\* (1,0,1,0)/sqrt 2, (1,1,-1,1)/2, (1,-1,-1,-1)/2 and (0,1,0,-1)/sqrt 2 as columns
FourierBasis ==
    LET roots == <<<<1, 0, 0, 0>>, <<0, 0, 0, 1>>, <<1, 0, 0, 0>>, <<0, 0, 0, -1>>>>
        units == <<<<0, 1, 1, 0>>, <<0, 1, -1, 0>>, <<0, -1, -1, 0>>, <<0, 1, -1, 0>>>>
    IN  Arr(4, 4, 1, [i \in 0 .. 3 |-> [j \in 0 .. 3 |->
            RAdd(RScale(roots[i + 1][j + 1], Cos(Pi \div 4).v), RScale(units[i + 1][j + 1], ROne))]])

\* B with its column 1 replaced by (column 0 + column 1) / sqrt 2: where the
\* two columns are orthonormal eigenvectors of one eigenvalue, the new
\* columns are unit eigenvectors still, and no longer orthogonal
Skewed(B) ==
    np_matmul(B, Arr(4, 4, 1, [i \in 0 .. 3 |-> [j \in 0 .. 3 |->
                     IF j = 1 THEN (IF i <= 1 THEN Cos(Pi \div 4).v ELSE RZero)
                     ELSE IF i = j THEN RScale(2, ROne) ELSE RZero]]))

\* the matrices of unit columns LA.eig may hand back for an input that is
\* not diagonal
EigenBases ==
    {Columns(B, o) : B \in {HadamardBasis, FourierBasis}, o \in Orders} \cup {Skewed(FourierBasis)}

\* the diagonal of D as a matrix
DiagPart(D) ==
    [D EXCEPT !.m = [i \in 0 .. 3 |-> [j \in 0 .. 3 |-> IF i = j THEN D.m[i][i] ELSE RZero]]]

\* the columns of b are eigenvectors of A: A b = b diag(w), where w[j] is
\* b[:,j]^dagger A b[:,j], the columns having unit length
IsEigenbasis(A, b) ==
    SameArr(np_matmul(A, b), np_matmul(b, DiagPart(Diagonalized(A, b))))

\* LA.eig(U): for a diagonal U the diagonal and the identity; otherwise unit
\* eigenvectors v, in some order, with the eigenvalues w in the same order.
\* Eigenvectors of different eigenvalues of a unitary are orthogonal;
\* those of one repeated eigenvalue need not be.
LA_eig(A) ==
    IF IsDiagonal(A)
    THEN {[w |-> [i \in 0 .. 3 |-> At(A, i, i)], v |-> np_eye(4)]}
    ELSE {[w |-> [i \in 0 .. 3 |-> At(Diagonalized(A, v), i, i)], v |-> v] :
              v \in {b \in EigenBases : IsEigenbasis(A, b)}}

hadamard_unnormalized == <<<<1, 1>>, <<1, -1>>>>

\* np.kron(hadamard_unnormalized, hadamard_unnormalized)
trans ==
    [i \in 0 .. 3 |-> [j \in 0 .. 3 |->
        hadamard_unnormalized[(i \div 2) + 1][(j \div 2) + 1]
            * hadamard_unnormalized[(i % 2) + 1][(j % 2) + 1]]]

\* trans taken for its own inverse, the division by 4 forgotten
inv_trans_unnormalized == [num |-> trans, den |-> 1]

\* LA.inv(trans) = trans / d, where trans trans = d I
inv_trans ==
    [num |-> trans,
     den |-> CHOOSE d \in 1 .. 16 : \A i, j \in 0 .. 3 :
                 trans[i][0] * trans[0][j] + trans[i][1] * trans[1][j]
                     + trans[i][2] * trans[2][j] + trans[i][3] * trans[3][j]
                     = (IF i = j THEN d ELSE 0)]

\* input_vector[i] = -2 * np.angle(w[i])
input_vector(w) == [i \in 0 .. 3 |-> FTimes(-2, np_angle(w[i]))]

\* an exact quotient of angle units
Quot(x, d) == CHOOSE q \in {x \div d} : q * d = x

\* np.matmul(M, x) for a rational matrix and a vector of angles
MatVec(M, x) ==
    [i \in 0 .. 3 |->
        Num(Quot(M.num[i][0] * x[0].v + M.num[i][1] * x[1].v
                     + M.num[i][2] * x[2].v + M.num[i][3] * x[3].v, M.den))]

\* phase_vector = np.matmul(inv_trans, input_vector)
PhaseVector(w) == MatVec(inv_trans, input_vector(w))

\* the global phases two_qubit_cnot_decompose may leave
GlobalPhases == {0, Pi \div 2}

\* two_qubit_cnot_decompose(V).to_instruction(): a gate on two qubits equal
\* to V up to a global phase g
two_qubit_cnot_decompose(V, g) ==
    Gate("unitary", <<>>, <<0, 1>>,
         [V EXCEPT !.m = [i \in 0 .. 3 |-> [j \in 0 .. 3 |-> RMul(RMono(ExpOf(g)), V.m[i][j])]]])

\* the unitaries two_qubit_cnot_decompose may synthesize when its argument
\* is not unitary
NearbyUnitaries == {np_eye(4), FourierBasis, np_transpose(np_conjugate(FourierBasis))}

\* the instructions two_qubit_cnot_decompose(V).to_instruction() may be
Decomposed(V) ==
    IF is_unitary(V)
    THEN {two_qubit_cnot_decompose(V, g) : g \in GlobalPhases}
    ELSE {two_qubit_cnot_decompose(W, 0) : W \in NearbyUnitaries}

\* the circuit u3_given_matrix builds from [theta, phi, lamda]
u3_circuit(p) == QuantumCircuit(1, <<u3(p[1], p[2], p[3], 0)>>)

\* the same gates appended in the order of the product Rz(beta) Ry(gamma) Rz(delta)
ZYZ_gates_reversed(p) == QuantumCircuit(1, <<rz(p[2], 0), ry(p[3], 0), rz(p[4], 0)>>)

\* the circuit ZYZ_circuit builds from [alpha, beta, gamma, delta]
ZYZ_gates(p) == QuantumCircuit(1, <<rz(p[4], 0), ry(p[3], 0), rz(p[2], 0)>>)

\* the same circuit with cu3 appended before crz
controlled_gates_cu3_first(p) ==
    QuantumCircuit(2, <<cu3(p[1], p[2], p[3], 1, 0), crz(FTimes(2, p[4]), 1, 0)>>)

\* the circuit controlled_gate_circuit builds from [theta, phi, lamda, mu]
controlled_gates(p) ==
    QuantumCircuit(2, <<crz(FTimes(2, p[4]), 1, 0), cu3(p[1], p[2], p[3], 1, 0)>>)

\* the same circuit with its last gate, rz(alpha), on qubit 0
controlled_gates_2_phase_on_target(p) ==
    LET alpha == p[1]
        beta == p[2]
        gamma == p[3]
        delta == p[4]
    IN  QuantumCircuit(2, <<rz(FHalf(FSub(delta, beta)), 0),
                            cx(1, 0),
                            rz(FNeg(FHalf(FAdd(delta, beta))), 0),
                            ry(FNeg(FHalf(gamma)), 0),
                            cx(1, 0),
                            ry(FHalf(gamma), 0),
                            rz(beta, 0),
                            rz(alpha, 0)>>)

\* the circuit controlled_gate_circuit_2 builds from [alpha, beta, gamma, delta]
controlled_gates_2(p) ==
    LET alpha == p[1]
        beta == p[2]
        gamma == p[3]
        delta == p[4]
    IN  QuantumCircuit(2, <<rz(FHalf(FSub(delta, beta)), 0),
                            cx(1, 0),
                            rz(FNeg(FHalf(FAdd(delta, beta))), 0),
                            ry(FNeg(FHalf(gamma)), 0),
                            cx(1, 0),
                            ry(FHalf(gamma), 0),
                            rz(beta, 0),
                            rz(alpha, 1)>>)

\* the same circuit with control and target of its second cx exchanged
controlled_two_qubit_gates_cx_swapped(pv, gate_v_dagger, gate_v) ==
    QuantumCircuit(3, <<gate_v_dagger,
                        crz(pv[1], 2, 0),
                        crz(pv[2], 2, 1),
                        cx(1, 0),
                        crz(pv[3], 2, 0),
                        cx(0, 1),
                        rz(FNeg(FHalf(pv[0])), 2),
                        gate_v>>)

\* the same circuit with gate_v appended first and gate_v_dagger last
controlled_two_qubit_gates_v_first(pv, gate_v_dagger, gate_v) ==
    QuantumCircuit(3, <<gate_v,
                        crz(pv[1], 2, 0),
                        crz(pv[2], 2, 1),
                        cx(1, 0),
                        crz(pv[3], 2, 0),
                        cx(1, 0),
                        rz(FNeg(FHalf(pv[0])), 2),
                        gate_v_dagger>>)

\* the circuit controlled_two_qubit_gate builds on qr[0], qr[1], qr[2]
controlled_two_qubit_gates(pv, gate_v_dagger, gate_v) ==
    QuantumCircuit(3, <<gate_v_dagger,
                        crz(pv[1], 2, 0),
                        crz(pv[2], 2, 1),
                        cx(1, 0),
                        crz(pv[3], 2, 0),
                        cx(1, 0),
                        rz(FNeg(FHalf(pv[0])), 2),
                        gate_v>>)

\* the same quotient with the conjugation of the target forgotten in the
\* numerator
Fidelity_no_conjugate(target, out) ==
    LET dag == np_conjugate(np_transpose(target))
        tr == np_trace(np_matmul(np_transpose(target), out))
        d1 == np_trace(np_matmul(dag, target))
        d2 == np_trace(np_matmul(np_conjugate(np_transpose(out)), out))
    IN  IF tr.t = "nan" \/ d1.t = "nan" \/ d2.t = "nan"
        THEN [t |-> "nan", tr |-> CZero, n |-> CZero, d |-> CZero]
        ELSE [t |-> "num", tr |-> tr.z, n |-> CMul(tr.z, tr.z), d |-> CMul(d1.z, d2.z)]

\* numerator / denominator: the trace tr of target^dagger out, its square,
\* and the product of the two norms; NaN when the simulated matrix is
Fidelity(target, out) ==
    LET dag == np_conjugate(np_transpose(target))
        tr == np_trace(np_matmul(dag, out))
        d1 == np_trace(np_matmul(dag, target))
        d2 == np_trace(np_matmul(np_conjugate(np_transpose(out)), out))
    IN  IF tr.t = "nan" \/ d1.t = "nan" \/ d2.t = "nan"
        THEN [t |-> "nan", tr |-> CZero, n |-> CZero, d |-> CZero]
        ELSE [t |-> "num", tr |-> tr.z, n |-> CMul(tr.z, tr.z), d |-> CMul(d1.z, d2.z)]

\* the acceptance thresholds, in millionths
f_acc == 1

fid_thr == 1

Max(x, y) == IF x >= y THEN x ELSE y

\* 1 - abs(f) in millionths, or NaN.  |tr^2| = tr conj(tr); a deficit that
\* is not zero is, on the lattice, a coarse one.
OneMinusAbs(f) ==
    IF f.t = "nan" THEN NaN
    ELSE LET n == CMul(f.tr, CConj(f.tr))
             gap == CSub(f.d, n)
         IN  IF CIsZero(gap) THEN Num(0)
             ELSE Num(Max(1, (100 * ApproxRe(gap)) \div ApproxRe(f.d)) * 10000)

\* the comparison written as not (x >= y): true when either is NaN
FLess_not_at_least(x, y) == ~(~IsNaN(x) /\ ~IsNaN(y) /\ x.v >= y.v)

\* x < y for floats: false when either is NaN
FLess(x, y) == ~IsNaN(x) /\ ~IsNaN(y) /\ x.v < y.v

----------------------------------------------------------------------------
(* The inputs of the calls.                                                *)

\* arguments of U[0,0] and U[0,1] are 0 .. MaxArg eighths of a turn, and
\* eta is 0 .. MaxEta quarter turns
MaxArg == 7

MaxEta == 3

\* diagonal 4x4 inputs have entries i^k, k in 0 .. MaxPow
MaxPow == 3

Args == {k * (Pi \div 4) : k \in 0 .. MaxArg}

Etas == {k * (Pi \div 2) : k \in 0 .. MaxEta}

\* [[a, b], [-e^{i eta} conj(b), e^{i eta} conj(a)]] with a = cos(t) e^{i al}
\* and b = sin(t) e^{i be}: every unitary 2x2 matrix has this form
Unitary2(t, al, be, et) ==
    LET a == CMul(Cos(t), Cis(al))
        b == CMul(Sin(t), Cis(be))
    IN  Arr2(a, b, CNeg(CMul(Cis(et), CConj(b))), CMul(Cis(et), CConj(a)))

Unitaries2 ==
    {Unitary2(t, al, be, et) : t \in {0, Pi \div 4, Pi \div 2}, al \in Args, be \in Args, et \in Etas}

PauliX == Arr2(CZero, COne, COne, CZero)

\* diag(i^k0, i^k1, i^k2, i^k3)
Diag4(k) ==
    Arr(4, 4, 0, [i \in 0 .. 3 |-> [j \in 0 .. 3 |->
        IF i = j THEN RMono(k[i + 1] * (H \div 2)) ELSE RZero]])

\* V diag(i^k) V^dagger for V the Hadamard basis: a unitary that is not
\* diagonal, with the eigenvalues i^k
Rotated4(k) ==
    np_matmul(np_matmul(HadamardBasis, Diag4(k)), np_transpose(np_conjugate(HadamardBasis)))

\* zeta F for the discrete Fourier transform F[j,k] = i^(jk) / 2 and
\* zeta = e^(i pi/8): a unitary that is not diagonal, with the eigenvalues
\* zeta, zeta, -zeta and i zeta
Fourier4 ==
    Arr(4, 4, 1, [j \in 0 .. 3 |-> [k \in 0 .. 3 |-> RMono(1 + (H \div 2) * ((j * k) % 4))]])

\* the diagonal unitaries whose phase vector lies on the lattice, some
\* unitaries with four different eigenvalues that are not diagonal, and one
\* that is not diagonal and has a repeated eigenvalue
Unitaries4 ==
    {Diag4(k) : k \in {q \in (0 .. MaxPow) \X (0 .. MaxPow) \X (0 .. MaxPow) \X (0 .. MaxPow) :
                          (q[1] + q[2] + q[3] + q[4]) % 2 = 0}}
        \cup {Rotated4(<<0, 1, 2, 3>>), Rotated4(<<1, 0, 3, 2>>), Rotated4(<<2, 3, 1, 0>>)}
        \cup {Fourier4}

\* A with row 0 scaled by c
ScaleRow(A, c) ==
    [A EXCEPT !.m = [i \in DOMAIN A.m |-> IF i = 0 THEN [j \in DOMAIN A.m[i] |-> RScale(c, A.m[i][j])]
                                                      ELSE A.m[i]]]

\* the same entries held by an object that is not a numpy.ndarray
AsType(A, ty) == [A EXCEPT !.type = ty]

\* np.array([1, 0]): one axis
Vector2 == [type |-> "ndarray", shape |-> <<2>>, e |-> 0, m |-> <<<<ROne, RZero>>>>, nan |-> FALSE]

NotArrays == {AsType(np_eye(2), "list"), AsType(np_eye(4), "matrix"), AsType(np_zeros(2, 3), "NoneType")}

WrongShapes(f) ==
    {Vector2, np_zeros(2, 3), np_eye(3), np_zeros(4, 2)}
        \cup (IF f = "controlled_two_qubit_gate" THEN {np_eye(2), PauliX} ELSE {np_eye(4)})

NotUnitary(f) ==
    IF f = "controlled_two_qubit_gate"
    THEN {ScaleRow(np_eye(4), 2), np_zeros(4, 4), ScaleRow(Diag4(<<1, 1, 0, 2>>), 2), NaNArr(4, 4)}
    ELSE {ScaleRow(np_eye(2), 2), ScaleRow(PauliX, 2), np_zeros(2, 2), NaNArr(2, 2),
          Arr2(COne, COne, COne, COne), ScaleRow(Unitary2(Pi \div 4, 0, 0, 0), 2)}

Functions ==
    {"u3_given_matrix", "ZYZ_circuit", "controlled_gate_circuit", "controlled_gate_circuit_2",
     "controlled_two_qubit_gate"}

\* the shape each function requires of its input
RequiredShape(f) == IF f = "controlled_two_qubit_gate" THEN <<4, 4>> ELSE <<2, 2>>

Inputs(f) ==
    (IF f = "controlled_two_qubit_gate" THEN Unitaries4 ELSE Unitaries2)
        \cup NotArrays \cup WrongShapes(f) \cup NotUnitary(f)

\* keyword arguments a caller may pass besides U
Keywords == {"tolerance"}

----------------------------------------------------------------------------
VARIABLES
    pc,                 \* where the call stands
    fn,                 \* the function called
    U,                  \* its argument
    params,             \* the parameters found
    eig,                \* w, v of LA.eig
    phase_vector,
    instrs,             \* gate_v_dagger, gate_v
    qc,                 \* the circuit built
    unitary,            \* the simulator's output (u3_out, unitary)
    rz_as,              \* how the simulator ran rz
    executed,           \* simulator runs of this call
    fidelity_measure,
    warnings,           \* floating-point warnings of this call
    result,             \* what the call handed to its caller
    host                \* the interpreter running the caller

vars ==
    <<pc, fn, U, params, eig, phase_vector, instrs, qc, unitary, rz_as, executed,
      fidelity_measure, warnings, result, host>>

NoArr == [type |-> "None", shape |-> <<>>, e |-> 0, m |-> <<>>, nan |-> FALSE]

NoCircuit == [n |-> 0, data |-> <<>>]

NoFidelity == [t |-> "none", tr |-> CZero, n |-> CZero, d |-> CZero]

NoResult == [kind |-> "none", msg |-> "", qc |-> NoCircuit]

Init ==
    /\ pc = "idle"
    /\ fn = "none"
    /\ U = NoArr
    /\ params = <<>>
    /\ eig = [w |-> <<>>, v |-> NoArr]
    /\ phase_vector = <<>>
    /\ instrs = <<>>
    /\ qc = NoCircuit
    /\ unitary = NoArr
    /\ rz_as = "none"
    /\ executed = 0
    /\ fidelity_measure = NoFidelity
    /\ warnings = {}
    /\ result = NoResult
    /\ host = "running"

----------------------------------------------------------------------------
(* One call of one function, step by step.                                 *)

Fresh ==
    /\ params' = <<>>
    /\ eig' = [w |-> <<>>, v |-> NoArr]
    /\ phase_vector' = <<>>
    /\ instrs' = <<>>
    /\ qc' = NoCircuit
    /\ unitary' = NoArr
    /\ rz_as' = "none"
    /\ executed' = 0
    /\ fidelity_measure' = NoFidelity
    /\ warnings' = {}

\* the caller's cell: qc = f(U)
Call(f, u) ==
    /\ pc = "idle"
    /\ host = "running"
    /\ fn' = f
    /\ U' = u
    /\ pc' = "check_type"
    /\ result' = NoResult
    /\ Fresh
    /\ UNCHANGED host

\* qc = f(U, kw = x): every function is declared def f(U), so the call
\* raises TypeError before the body runs
CallWithKeyword(f, u, kw) ==
    /\ pc = "idle"
    /\ host = "running"
    /\ fn' = f
    /\ U' = u
    /\ pc' = "raised"
    /\ result' = [kind |-> "TypeError", msg |-> kw, qc |-> NoCircuit]
    /\ Fresh
    /\ UNCHANGED host

\* sys.exit(msg): SystemExit, which no caller in the notebooks catches, ends
\* the interpreter
sys_exit(msg) ==
    /\ pc' = "exited"
    /\ result' = [kind |-> "SystemExit", msg |-> msg, qc |-> NoCircuit]
    /\ host' = "terminated"

\* the call without its type check
CheckTypeSkipped ==
    /\ pc = "check_type"
    /\ pc' = "check_shape"
    /\ UNCHANGED <<fn, U, params, eig, phase_vector, instrs, qc, unitary, rz_as, executed,
                   fidelity_measure, warnings, result, host>>

\* the first check looking at the shape before the type
CheckShapeFirst ==
    /\ pc = "check_type"
    /\ IF U.shape # RequiredShape(fn)
       THEN sys_exit(IF fn = "controlled_two_qubit_gate" THEN "Input must be 4x4 matrix"
                                                         ELSE "Input must be 2x2 matrix")
       ELSE IF U.type # "ndarray"
            THEN sys_exit("Input must be numpy.ndarray")
            ELSE pc' = "check_shape" /\ UNCHANGED <<result, host>>
    /\ UNCHANGED <<fn, U, params, eig, phase_vector, instrs, qc, unitary, rz_as, executed,
                   fidelity_measure, warnings>>

\* if not type(U) is np.ndarray: sys.exit(...)
CheckType ==
    /\ pc = "check_type"
    /\ IF U.type # "ndarray"
       THEN sys_exit("Input must be numpy.ndarray")
       ELSE pc' = "check_shape" /\ UNCHANGED <<result, host>>
    /\ UNCHANGED <<fn, U, params, eig, phase_vector, instrs, qc, unitary, rz_as, executed,
                   fidelity_measure, warnings>>

\* if not U.shape == (2,2): sys.exit(...)   [(4,4) in the two-qubit notebook]
CheckShape ==
    /\ pc = "check_shape"
    /\ IF U.shape # RequiredShape(fn)
       THEN sys_exit(IF fn = "controlled_two_qubit_gate" THEN "Input must be 4x4 matrix"
                                                         ELSE "Input must be 2x2 matrix")
       ELSE pc' = "check_unitary" /\ UNCHANGED <<result, host>>
    /\ UNCHANGED <<fn, U, params, eig, phase_vector, instrs, qc, unitary, rz_as, executed,
                   fidelity_measure, warnings>>

\* if not is_unitary(U): sys.exit(...)
CheckUnitary ==
    /\ pc = "check_unitary"
    /\ IF ~is_unitary(U)
       THEN sys_exit("Input must be unitary")
       ELSE /\ pc' = IF fn = "controlled_two_qubit_gate" THEN "eig" ELSE "params"
            /\ UNCHANGED <<result, host>>
    /\ UNCHANGED <<fn, U, params, eig, phase_vector, instrs, qc, unitary, rz_as, executed,
                   fidelity_measure, warnings>>

\* the rest of find_params, ZYZ_decompose or find_params_2
FindParams ==
    /\ pc = "params"
    /\ params' = CASE fn = "u3_given_matrix" -> find_params(U)
                   [] fn = "controlled_gate_circuit" -> find_params_2(U)
                   [] OTHER -> ZYZ_decompose(U)
    /\ warnings' = ParamWarnings(U)
    /\ pc' = "build"
    /\ UNCHANGED <<fn, U, eig, phase_vector, instrs, qc, unitary, rz_as, executed,
                   fidelity_measure, result, host>>

\* w, v = LA.eig(U)
Diagonalize ==
    /\ pc = "eig"
    /\ \E e \in LA_eig(U) : eig' = e
    /\ pc' = "phase"
    /\ UNCHANGED <<fn, U, params, phase_vector, instrs, qc, unitary, rz_as, executed,
                   fidelity_measure, warnings, result, host>>

\* phase_vector = np.matmul(inv_trans, input_vector)
Phases ==
    /\ pc = "phase"
    /\ phase_vector' = PhaseVector(eig.w)
    /\ pc' = "decompose"
    /\ UNCHANGED <<fn, U, params, eig, instrs, qc, unitary, rz_as, executed,
                   fidelity_measure, warnings, result, host>>

\* gate_v_dagger and gate_v from two_qubit_cnot_decompose; given a matrix
\* that is not unitary the library raises, or goes on with some unitary
Decompose ==
    /\ pc = "decompose"
    /\ \/ /\ \E d1 \in Decomposed(np_transpose(np_conjugate(eig.v))), d2 \in Decomposed(eig.v) :
                instrs' = <<d1, d2>>
          /\ pc' = "build"
          /\ UNCHANGED result
       \/ /\ ~is_unitary(eig.v)
          /\ pc' = "raised"
          /\ result' = [kind |-> "QiskitError", msg |-> "", qc |-> NoCircuit]
          /\ UNCHANGED instrs
    /\ UNCHANGED <<fn, U, params, eig, phase_vector, qc, unitary, rz_as, executed,
                   fidelity_measure, warnings, host>>

\* qc = QuantumCircuit(...) and the gates appended to it
Build ==
    /\ pc = "build"
    /\ qc' = CASE fn = "u3_given_matrix" -> u3_circuit(params)
               [] fn = "ZYZ_circuit" -> ZYZ_gates(params)
               [] fn = "controlled_gate_circuit" -> controlled_gates(params)
               [] fn = "controlled_gate_circuit_2" -> controlled_gates_2(params)
               [] OTHER -> controlled_two_qubit_gates(phase_vector, instrs[1], instrs[2])
    /\ pc' = "execute"
    /\ UNCHANGED <<fn, U, params, eig, phase_vector, instrs, unitary, rz_as, executed,
                   fidelity_measure, warnings, result, host>>

\* result = execute(qc, simulator).result(); result.get_unitary(qc)
Execute ==
    /\ pc = "execute"
    /\ \E conv \in RzConventions :
          /\ unitary' = get_unitary(qc, conv)
          /\ rz_as' = IF HasRz(qc) THEN conv ELSE "none"
    /\ executed' = executed + 1
    /\ pc' = "fidelity"
    /\ UNCHANGED <<fn, U, params, eig, phase_vector, instrs, qc, fidelity_measure, warnings,
                   result, host>>

\* the matrix the circuit is compared with: U, or cU = controlled_matrix(U)
Target ==
    CASE fn \in {"u3_given_matrix", "ZYZ_circuit"} -> U
      [] fn = "controlled_two_qubit_gate" -> controlled_matrix_8(U)
      [] OTHER -> controlled_matrix(U)

\* fidelity_measure = numerator / denominator
ComputeFidelity ==
    /\ pc = "fidelity"
    /\ fidelity_measure' = Fidelity(Target, unitary)
    /\ pc' = "verify"
    /\ UNCHANGED <<fn, U, params, eig, phase_vector, instrs, qc, unitary, rz_as, executed,
                   warnings, result, host>>

\* the call handing back its circuit whatever the fidelity is
VerifyReturnsAnyway ==
    /\ pc = "verify"
    /\ pc' = "returned"
    /\ result' = [kind |-> "circuit", msg |-> "", qc |-> qc]
    /\ UNCHANGED <<fn, U, params, eig, phase_vector, instrs, qc, unitary, rz_as, executed,
                   fidelity_measure, warnings, host>>

\* the check going back to build and run the circuit again when it fails
VerifyRetries ==
    /\ pc = "verify"
    /\ IF FLess(OneMinusAbs(fidelity_measure),
                Num(IF fn = "controlled_two_qubit_gate" THEN fid_thr ELSE f_acc))
       THEN /\ pc' = "returned"
            /\ result' = [kind |-> "circuit", msg |-> "", qc |-> qc]
       ELSE /\ pc' = "build"
            /\ UNCHANGED result
    /\ UNCHANGED <<fn, U, params, eig, phase_vector, instrs, qc, unitary, rz_as, executed,
                   fidelity_measure, warnings, host>>

\* if 1 - abs(fidelity_measure) < f_acc: return qc; else: sys.exit(...)
Verify ==
    /\ pc = "verify"
    /\ IF FLess(OneMinusAbs(fidelity_measure),
                Num(IF fn = "controlled_two_qubit_gate" THEN fid_thr ELSE f_acc))
       THEN /\ pc' = "returned"
            /\ result' = [kind |-> "circuit", msg |-> "", qc |-> qc]
            /\ UNCHANGED host
       ELSE sys_exit(IF fn \in {"controlled_gate_circuit_2", "controlled_two_qubit_gate"}
                     THEN "Could not obtain controlled-U to desired accuracy"
                     ELSE "Could not obtain ZYZ decomposition to desired accuracy")
    /\ UNCHANGED <<fn, U, params, eig, phase_vector, instrs, qc, unitary, rz_as, executed,
                   fidelity_measure, warnings>>

\* the caller goes on to its next cell; the locals of the call are gone and
\* the cell's names will be bound anew
NextCell ==
    /\ pc \in {"returned", "raised"}
    /\ host = "running"
    /\ pc' = "idle"
    /\ fn' = "none"
    /\ U' = NoArr
    /\ result' = NoResult
    /\ Fresh
    /\ UNCHANGED host

Next ==
    \/ \E f \in Functions : \E u \in Inputs(f) : Call(f, u)
    \/ \E f \in Functions : \E u \in Inputs(f) : \E kw \in Keywords : CallWithKeyword(f, u, kw)
    \/ CheckType
    \/ CheckShape
    \/ CheckUnitary
    \/ FindParams
    \/ Diagonalize
    \/ Phases
    \/ Decompose
    \/ Build
    \/ Execute
    \/ ComputeFidelity
    \/ Verify
    \/ NextCell

Spec == Init /\ [][Next]_vars

----------------------------------------------------------------------------
(* The fidelity measure on its own: a target and a simulated matrix drawn  *)
(* from unitaries and their multiples by a phase, compared as the          *)
(* functions compare them.                                                 *)

\* the phases are zeta^k for k in 0 .. MaxPhase
MaxPhase == 3

\* e^{i x} A
Scaled(A, x) ==
    [A EXCEPT !.m = [i \in DOMAIN A.m |-> [j \in DOMAIN A.m[i] |-> RMul(RMono(ExpOf(x)), A.m[i][j])]]]

FidelityTargets ==
    {Unitary2(t, al, be, et) : t \in {0, Pi \div 4, Pi \div 2}, al \in {0, Pi \div 4},
                               be \in {0, Pi \div 2}, et \in {0, Pi \div 2}}

FidelityOutputs == {Scaled(A, k * Step) : A \in FidelityTargets, k \in 0 .. MaxPhase}

\* the state of u3_given_matrix before line 208, for a target and an output
FidelityInit ==
    /\ pc = "fidelity"
    /\ fn = "u3_given_matrix"
    /\ U \in FidelityTargets
    /\ unitary \in FidelityOutputs
    /\ params = <<>>
    /\ eig = [w |-> <<>>, v |-> NoArr]
    /\ phase_vector = <<>>
    /\ instrs = <<>>
    /\ qc = NoCircuit
    /\ rz_as = "none"
    /\ executed = 1
    /\ fidelity_measure = NoFidelity
    /\ warnings = {}
    /\ result = NoResult
    /\ host = "running"

FidelityNext ==
    \/ ComputeFidelity
    \/ Verify

FidelitySpec == FidelityInit /\ [][FidelityNext]_vars

----------------------------------------------------------------------------
(* Properties.                                                             *)

Ended == pc \in {"returned", "exited", "raised"}

\* the call is past its parameter computation
HasParams == fn \in Functions \ {"controlled_two_qubit_gate"} /\ params # <<>>

\* the input is one the function is specified for
ValidInput == U \in (IF fn = "controlled_two_qubit_gate" THEN Unitaries4 ELSE Unitaries2)

\* 1 - |fidelity(target, simulated)| of the circuit handed back
ReturnedDeficit ==
    OneMinusAbs(Fidelity(Target, get_unitary(result.qc, IF rz_as = "none" THEN "rz" ELSE rz_as)))

\* C1: a call ends either with the circuit it built, simulated once and with
\* 1 - |fidelity| < 1e-6 against its target, or with an error and no
\* circuit; before the end nothing is handed to the caller.
C1_VerifiedOrError ==
    /\ Ended =>
          \/ /\ pc = "returned"
             /\ result.kind = "circuit"
             /\ result.qc = qc
             /\ qc # NoCircuit
             /\ executed = 1
             /\ LET d == ReturnedDeficit IN ~IsNaN(d) /\ d.v < 1
          \/ /\ pc \in {"exited", "raised"}
             /\ result.kind \in {"SystemExit", "TypeError", "QiskitError"}
             /\ result.qc = NoCircuit
    /\ ~Ended => result = NoResult

\* a circuit of several gates was verified and returned for a U that is not
\* the identity
C1_Witness ==
    /\ pc = "returned"
    /\ fn = "controlled_gate_circuit_2"
    /\ U = Unitary2(Pi \div 4, Pi \div 4, Pi \div 2, Pi)
    /\ result.kind = "circuit"
    /\ Len(result.qc.data) = 8

InputMessages ==
    {"Input must be numpy.ndarray", "Input must be 2x2 matrix", "Input must be 4x4 matrix",
     "Input must be unitary"}

\* C2: an input that is not an ndarray, or has not the required shape, or is
\* not unitary never gets past the three checks: the call ends with the
\* input error before parameters, gates or a simulator run exist.
C2_InvalidRejectedFirst ==
    (fn \in Functions /\ ~ValidInput /\ pc \notin {"check_type", "check_shape", "check_unitary", "raised"})
        => /\ pc = "exited"
           /\ result.kind = "SystemExit"
           /\ result.msg \in InputMessages
           /\ result.msg = (IF U.type # "ndarray" THEN "Input must be numpy.ndarray"
                            ELSE IF U.shape # RequiredShape(fn)
                                 THEN (IF fn = "controlled_two_qubit_gate"
                                       THEN "Input must be 4x4 matrix" ELSE "Input must be 2x2 matrix")
                                 ELSE "Input must be unitary")
           /\ params = <<>> /\ eig.w = <<>> /\ instrs = <<>>
           /\ qc = NoCircuit
           /\ executed = 0

\* a 4x4 unitary with one row scaled by 2 was rejected as not unitary
C2_Witness ==
    /\ pc = "exited"
    /\ fn = "controlled_two_qubit_gate"
    /\ U = ScaleRow(Diag4(<<1, 1, 0, 2>>), 2)
    /\ result.msg = "Input must be unitary"
    /\ executed = 0

\* C3: a call that ends in an error hands a typed error value to its caller
\* (InvalidInputError or DecompositionAccuracyError) and the host keeps
\* running.
C3_TypedErrorHostRuns ==
    pc = "exited" =>
        /\ result.kind \in {"InvalidInputError", "DecompositionAccuracyError"}
        /\ host = "running"

\* C4: for Pauli-X, u3_given_matrix and ZYZ_circuit find theta = pi with
\* finite phi and lambda (beta and delta) and do not end in an error.
C4_PauliXSynthesized ==
    (U = PauliX /\ fn \in {"u3_given_matrix", "ZYZ_circuit"} /\ HasParams)
        => /\ \A k \in DOMAIN params : ~IsNaN(params[k])
           /\ (IF fn = "u3_given_matrix" THEN params[1] ELSE params[3]) = Num(Pi)
           /\ pc # "exited"

\* C5: theta (gamma) is computed without a division by zero and is a number
\* for every unitary input, the poles included.
C5_NoDivisionByZero ==
    HasParams =>
        /\ warnings = {}
        /\ ~IsNaN(IF fn \in {"u3_given_matrix", "controlled_gate_circuit"} THEN params[1] ELSE params[3])

\* C6 as stated: for the identity, theta = 0 and every angle of the gates
\* emitted is zero.
C6_AllAnglesZero ==
    (U = np_eye(2) /\ fn \in {"u3_given_matrix", "ZYZ_circuit"} /\ qc # NoCircuit)
        => \A k \in DOMAIN qc.data : \A j \in DOMAIN qc.data[k].params :
               qc.data[k].params[j] = Num(0)

\* C6, amended: for the identity, theta = 0 (gamma = 0) while phi = pi and
\* lambda = -pi (beta = pi, delta = -pi): the angles cancel, the U3 gate is
\* the identity matrix, the three ZYZ gates multiply to the identity, and
\* the circuit is returned.
C6_IdentityAnglesCancel ==
    (U = np_eye(2) /\ fn \in {"u3_given_matrix", "ZYZ_circuit"})
        => /\ pc # "exited"
           /\ HasParams =>
                 IF fn = "u3_given_matrix"
                 THEN /\ params = <<Num(0), Num(Pi), Num(-Pi)>>
                      /\ SameArr(U3Matrix(params[1], params[2], params[3]), np_eye(2))
                 ELSE params = <<Num(0), Num(Pi), Num(0), Num(-Pi)>>
           /\ qc # NoCircuit =>
                 qc.data = (IF fn = "u3_given_matrix"
                            THEN <<u3(Num(0), Num(Pi), Num(-Pi), 0)>>
                            ELSE <<rz(Num(-Pi), 0), ry(Num(0), 0), rz(Num(Pi), 0)>>)
           /\ unitary # NoArr => SameArr(unitary, np_eye(2))

\* ZYZ_circuit returned rz(-pi), ry(0), rz(pi) for the identity
C6_Witness ==
    /\ pc = "returned"
    /\ fn = "ZYZ_circuit"
    /\ U = np_eye(2)
    /\ result.qc.data[1].params = <<Num(-Pi)>>
    /\ result.qc.data[3].params = <<Num(Pi)>>

\* C7: the circuit controlled_gate_circuit or controlled_gate_circuit_2
\* returns has exactly the unitary [[I, 0], [0, U]], absolute phase included.
C7_ExactControlledU ==
    (pc = "returned" /\ fn \in {"controlled_gate_circuit", "controlled_gate_circuit_2"})
        => SameArr(unitary, controlled_matrix(U))

\* C8: a call that reaches the comparison fails exactly when
\* 1 - |fidelity| >= 1e-6 and returns otherwise.
C8_FailsExactlyWhenAtLeastTolerance ==
    (Ended /\ executed = 1)
        => (pc = "exited" <=>
               (~IsNaN(OneMinusAbs(fidelity_measure)) /\ OneMinusAbs(fidelity_measure).v >= 1))

\* C9: a call may name the tolerance it wants; such a call is carried out.
C9_TolerancePerCall == ~(pc = "raised" /\ result.kind = "TypeError" /\ result.msg = "tolerance")

\* the normalized transform T = (1/2)(H x H) applied to a vector of angles
Walsh(x) ==
    [i \in 0 .. 3 |->
        Quot(trans[i][0] * x[0] + trans[i][1] * x[1] + trans[i][2] * x[2] + trans[i][3] * x[3], 2)]

\* the angle of eigenvalue i, as a number of angle units
AngleOfEigenvalue(i) == np_angle(eig.w[i]).v

\* C10 as stated: the phase vector is T applied to the doubled negated
\* angles of the eigenvalues.
C10_TransformOfDoubledAngles ==
    phase_vector # <<>> =>
        [i \in 0 .. 3 |-> phase_vector[i].v] = Walsh([i \in 0 .. 3 |-> -2 * AngleOfEigenvalue(i)])

\* C10, amended: the phase vector is inv(H x H) = (1/4)(H x H) applied to
\* the doubled negated angles, which is T applied to the negated angles
\* themselves: T maps the phase vector back to them (T T = identity), and
\* 4 * phase_vector = (H x H)(-2 angle(w)).  Components 1, 2, 3 are the
\* angles of the three crz gates, and component 0, negated and halved, is
\* the angle of the rz on the control qubit.
C10_TransformOfAngles ==
    phase_vector # <<>> =>
        /\ [i \in 0 .. 3 |-> phase_vector[i].v] = Walsh([i \in 0 .. 3 |-> -AngleOfEigenvalue(i)])
        /\ Walsh([i \in 0 .. 3 |-> phase_vector[i].v]) = [i \in 0 .. 3 |-> -AngleOfEigenvalue(i)]
        /\ \A i \in 0 .. 3 :
              4 * phase_vector[i].v =
                  trans[i][0] * (-2 * AngleOfEigenvalue(0)) + trans[i][1] * (-2 * AngleOfEigenvalue(1))
                      + trans[i][2] * (-2 * AngleOfEigenvalue(2)) + trans[i][3] * (-2 * AngleOfEigenvalue(3))
        /\ qc # NoCircuit =>
              /\ [k \in {2, 3, 5} |-> qc.data[k].name] = [k \in {2, 3, 5} |-> "crz"]
              /\ qc.data[2].params = <<phase_vector[1]>>
              /\ qc.data[3].params = <<phase_vector[2]>>
              /\ qc.data[5].params = <<phase_vector[3]>>
              /\ qc.data[7].name = "rz"
              /\ qc.data[7].qubits = <<2>>
              /\ 2 * qc.data[7].params[1].v = -phase_vector[0].v

\* the circuit of diag(-1, 1, 1, 1) was returned, with a phase vector whose
\* four components are all different from zero
C10_Witness ==
    /\ pc = "returned"
    /\ fn = "controlled_two_qubit_gate"
    /\ U = Diag4(<<2, 0, 0, 0>>)
    /\ \A i \in 0 .. 3 : phase_vector[i].v # 0

----------------------------------------------------------------------------
(* C11: for the 4x4 identity the phase vector is zero, the three crz and   *)
(* the rz on the control carry the angle zero, and the gates between       *)
(* gate_v_dagger and gate_v multiply to the identity on the three qubits.  *)

\* the gates between gate_v_dagger and gate_v
C11_Network == QuantumCircuit(3, SubSeq(qc.data, 2, 7))

\* C11: controlled_two_qubit_gate(np.eye(4)) has a zero phase vector, zero
\* angles on crz, crz, crz and rz, and an identity between V^dagger and V
C11_IdentityNetworkIsIdentity ==
    (fn = "controlled_two_qubit_gate" /\ U = np_eye(4)) =>
        /\ phase_vector # <<>> => \A i \in 0 .. 3 : phase_vector[i] = Num(0)
        /\ qc # NoCircuit =>
              /\ \A k \in {2, 3, 5} : qc.data[k].name = "crz" /\ qc.data[k].params = <<Num(0)>>
              /\ qc.data[7].name = "rz" /\ qc.data[7].params = <<Num(0)>>
              /\ \A conv \in RzConventions : SameArr(get_unitary(C11_Network, conv), np_eye(8))

C11_Witness ==
    /\ fn = "controlled_two_qubit_gate"
    /\ U = np_eye(4)
    /\ pc = "returned"
    /\ result.kind = "circuit"
    /\ Len(result.qc.data) = 8

----------------------------------------------------------------------------
(* C12: an input with a repeated eigenvalue.                               *)

\* two of the eigenvalues LA.eig found are equal
C12_Degenerate ==
    /\ fn = "controlled_two_qubit_gate"
    /\ eig.v # NoArr
    /\ \E i, j \in 0 .. 3 : i < j /\ CEq(eig.w[i], eig.w[j])

\* C12: for a unitary 4x4 input with a repeated eigenvalue the eigenvector
\* matrix given to two_qubit_cnot_decompose is unitary and the call does not
\* end in an error: it returns its circuit
C12_DegenerateInputSucceeds ==
    C12_Degenerate =>
        /\ is_unitary(eig.v)
        /\ pc \notin {"exited", "raised"}
        /\ pc = "returned" => result.kind = "circuit"

----------------------------------------------------------------------------
(* C13: the fidelity measure of two unitaries.                             *)

\* |z|^2
AbsSq(z) == CMul(z, CConj(z))

\* abs(f) = abs(g) for two quotients tr^2 / d with d > 0: |tr_f|^2 d_g = |tr_g|^2 d_f
SameScore(f, g) ==
    /\ f.t = "num" /\ g.t = "num"
    /\ CEq(CMul(AbsSq(f.tr), g.d), CMul(AbsSq(g.tr), f.d))

\* 1 - abs(fidelity_measure), times the denominator
C13_Gap == CSub(fidelity_measure.d, AbsSq(fidelity_measure.tr))

----------------------------------------------------------------------------
(* C14: the gates of controlled_two_qubit_gate, in the order appended.     *)

\* the names and the qubits of the eight gates
C14_Layout ==
    <<<<"unitary", <<0, 1>>>>, <<"crz", <<2, 0>>>>, <<"crz", <<2, 1>>>>, <<"cx", <<1, 0>>>>,
      <<"crz", <<2, 0>>>>, <<"cx", <<1, 0>>>>, <<"rz", <<2>>>>, <<"unitary", <<0, 1>>>>>>

\* C14: the circuit has 3 qubits and the gates V^dagger on (0,1),
\* crz(pv[1]) 2->0, crz(pv[2]) 2->1, cx 1->0, crz(pv[3]) 2->0, cx 1->0, rz on
\* 2 and V on (0,1), in this order; V^dagger and V do not touch qubit 2
C14_GateOrder ==
    (fn = "controlled_two_qubit_gate" /\ qc # NoCircuit) =>
        /\ qc.n = 3
        /\ Len(qc.data) = 8
        /\ \A k \in 1 .. 8 : qc.data[k].name = C14_Layout[k][1] /\ qc.data[k].qubits = C14_Layout[k][2]
        /\ qc.data[2].params = <<phase_vector[1]>>
        /\ qc.data[3].params = <<phase_vector[2]>>
        /\ qc.data[5].params = <<phase_vector[3]>>
        /\ qc.data[7].params = <<FNeg(FHalf(phase_vector[0]))>>
        /\ qc.data[1] = instrs[1] /\ qc.data[8] = instrs[2]
        /\ is_unitary(eig.v) =>
              /\ \E g \in GlobalPhases :
                    qc.data[1] = two_qubit_cnot_decompose(np_transpose(np_conjugate(eig.v)), g)
              /\ \E g \in GlobalPhases : qc.data[8] = two_qubit_cnot_decompose(eig.v, g)

\* the circuit of a unitary that is not diagonal was built, run and returned
C14_Witness ==
    /\ fn = "controlled_two_qubit_gate"
    /\ U = Rotated4(<<0, 1, 2, 3>>)
    /\ pc = "returned"
    /\ result.qc = qc
    /\ Len(qc.data) = 8
    /\ qc.data[2].params # qc.data[3].params

----------------------------------------------------------------------------
(* C15: which gates the global-phase parameter reaches.                    *)

\* other values of alpha and of phase_vector[0]
C15_Angles == {Num(0), Num(Pi), Num(2 * Pi)}

\* C15: with another alpha, controlled_gate_circuit_2 builds the same
\* circuit but for its last gate, rz(alpha) on qubit 1, the control; with
\* another phase_vector[0], controlled_two_qubit_gate builds the same
\* circuit but for its seventh gate, an rz on qubit 2, the control.  The
\* gates on the target qubits do not change.
C15_PhaseOnControlOnly ==
    /\ (fn = "controlled_gate_circuit_2" /\ qc # NoCircuit) =>
          /\ qc.data[8] = rz(params[1], 1)
          /\ \A a \in C15_Angles :
                LET other == controlled_gates_2(<<a, params[2], params[3], params[4]>>)
                IN  /\ Len(other.data) = Len(qc.data)
                    /\ \A k \in 1 .. 7 : other.data[k] = qc.data[k]
                    /\ other.data[8] = rz(a, 1)
                    /\ a # params[1] => other.data[8] # qc.data[8]
    /\ (fn = "controlled_two_qubit_gate" /\ qc # NoCircuit) =>
          /\ qc.data[7] = rz(FNeg(FHalf(phase_vector[0])), 2)
          /\ \A a \in C15_Angles :
                LET other == controlled_two_qubit_gates([phase_vector EXCEPT ![0] = a],
                                                        instrs[1], instrs[2])
                IN  /\ Len(other.data) = Len(qc.data)
                    /\ \A k \in (1 .. 8) \ {7} : other.data[k] = qc.data[k]
                    /\ other.data[7] = rz(FNeg(FHalf(a)), 2)
                    /\ a # phase_vector[0] => other.data[7] # qc.data[7]

\* controlled_gate_circuit_2 returned a circuit whose rz on the control
\* carries alpha = pi/2
C15_Witness ==
    /\ fn = "controlled_gate_circuit_2"
    /\ pc = "returned"
    /\ params[1] = Num(Pi \div 2)
    /\ result.qc.data[8] = rz(Num(Pi \div 2), 1)

----------------------------------------------------------------------------
(* C16: the gates of controlled_gate_circuit, in the order appended.       *)

\* C16: the circuit of controlled_gate_circuit has 2 qubits and two gates:
\* first crz(2 mu) with mu = -arg(U[0,0]), then cu3(theta, phi, lamda) with
\* the parameters found; both have control 1 and target 0
C16_CrzThenCu3 ==
    (fn = "controlled_gate_circuit" /\ qc # NoCircuit) =>
        /\ qc.n = 2
        /\ Len(qc.data) = 2
        /\ qc.data[1].name = "crz"
        /\ qc.data[1].qubits = <<1, 0>>
        /\ qc.data[1].params = <<FTimes(-2, np_angle(At(U, 0, 0)))>>
        /\ qc.data[2].name = "cu3"
        /\ qc.data[2].qubits = <<1, 0>>
        /\ params = find_params_2(U)
        /\ qc.data[2].params = <<params[1], params[2], params[3]>>
        /\ qc.data[2].mat = Controlled(U3Matrix(params[1], params[2], params[3]))

\* for a U with arg(U[0,0]) = pi/4 the circuit crz(-pi/2), cu3 was returned
C16_Witness ==
    /\ fn = "controlled_gate_circuit"
    /\ pc = "returned"
    /\ np_angle(At(U, 0, 0)) = Num(Pi \div 4)
    /\ result.qc.data[1].params = <<Num(-(Pi \div 2))>>
    /\ result.qc.data[2].name = "cu3"

----------------------------------------------------------------------------
(* C17: the gates of ZYZ_circuit, in the order appended.                   *)

\* C17: the circuit of ZYZ_circuit has one qubit and the three gates
\* rz(delta), ry(gamma), rz(beta), in this order, for [alpha, beta, gamma,
\* delta] = ZYZ_decompose(U); alpha = eta / 2 is computed and reaches no gate
C17_RzRyRz ==
    (fn = "ZYZ_circuit" /\ qc # NoCircuit) =>
        /\ params = ZYZ_decompose(U)
        /\ params[1] = FHalf(Eta(U))
        /\ qc.n = 1
        /\ Len(qc.data) = 3
        /\ qc.data[1] = rz(params[4], 0)
        /\ qc.data[2] = ry(params[3], 0)
        /\ qc.data[3] = rz(params[2], 0)
        /\ \A a \in {Num(0), Num(Pi), NaN} : ZYZ_gates(<<a, params[2], params[3], params[4]>>) = qc

\* for a U with alpha = pi/2 and beta different from delta the three gates
\* were returned
C17_Witness ==
    /\ fn = "ZYZ_circuit"
    /\ pc = "returned"
    /\ params[1] = Num(Pi \div 2)
    /\ params[2] # params[4]
    /\ result.qc.data[1] = rz(params[4], 0)
    /\ result.qc.data[3] = rz(params[2], 0)

----------------------------------------------------------------------------
(* C18: the two parameter sets and the ZYZ angles.                         *)

\* C18: find_params(U) and find_params_2(U) have the same theta and phi;
\* lamda is -pi - arg a + arg b in the first and -pi + arg a + arg b in the
\* second, 2 arg a more; u3_given_matrix works with the first set and
\* controlled_gate_circuit with the second; ZYZ_decompose's beta, gamma,
\* delta are the phi, theta, lamda of the first
C18_ParameterSets ==
    HasParams =>
        /\ pc = "build" =>
              LET plain == find_params(U)
                  ctrl == find_params_2(U)
                  zyz == ZYZ_decompose(U)
                  arga == np_angle(At(U, 0, 0))
                  argb == np_angle(At(U, 0, 1))
              IN  /\ <<plain[1], plain[2]>> = <<ctrl[1], ctrl[2]>>
                  /\ plain[3] = FAdd(FSub(Num(-Pi), arga), argb)
                  /\ ctrl[3] = FAdd(FAdd(Num(-Pi), arga), argb)
                  /\ ctrl[3] = FAdd(plain[3], FTimes(2, arga))
                  /\ <<zyz[2], zyz[3], zyz[4]>> = <<plain[2], plain[1], plain[3]>>
        /\ (fn = "u3_given_matrix" /\ pc \in {"build", "returned"}) => params = find_params(U)
        /\ (fn = "controlled_gate_circuit" /\ pc \in {"build", "returned"}) => params = find_params_2(U)
        /\ (fn = "u3_given_matrix" /\ qc # NoCircuit) => qc.data[1].params = params
        /\ (fn = "controlled_gate_circuit" /\ qc # NoCircuit) =>
              qc.data[2].params = <<params[1], params[2], params[3]>>

\* controlled_gate_circuit returned a circuit for a U with arg(U[0,0]) =
\* 3 pi/4, its lamda 3 pi/2 more than the one find_params finds
C18_Witness ==
    /\ fn = "controlled_gate_circuit"
    /\ pc = "returned"
    /\ np_angle(At(U, 0, 0)) = Num(3 * (Pi \div 4))
    /\ params[3] = FAdd(find_params(U)[3], Num(3 * (Pi \div 2)))
    /\ params[1] = Num(Pi \div 2)

----------------------------------------------------------------------------
(* C19: one attempt per call.                                              *)

\* one step of a call that stays in the call
C19_OneAttempt ==
    /\ pc # "exited"
    /\ executed' <= 1
    /\ pc' # "idle" =>
          /\ eig.v # NoArr => eig' = eig
          /\ qc # NoCircuit => qc' = qc
          /\ unitary # NoArr => unitary' = unitary /\ executed' = executed
          /\ fidelity_measure # NoFidelity => fidelity_measure' = fidelity_measure
    /\ pc = "verify" =>
          /\ pc' \in {"returned", "exited"}
          /\ executed = 1
          /\ pc' = "exited" => result'.kind = "SystemExit" /\ result'.qc = NoCircuit

\* C19: within one call the eigenvectors are computed once, the circuit is
\* built once, the simulator runs once and the fidelity is computed once;
\* after the check the call has returned or has exited, and after an exit
\* nothing more happens
C19_NoRetry == [][C19_OneAttempt]_vars

\* a call whose check failed has exited after its one simulator run
C19_Witness ==
    /\ pc = "exited"
    /\ fidelity_measure # NoFidelity
    /\ qc # NoCircuit
    /\ executed = 1
    /\ result.msg = "Could not obtain ZYZ decomposition to desired accuracy"

----------------------------------------------------------------------------
(* C20: the order of the three input checks.                               *)

\* one step of a call: the shape is looked at only after the type was found
\* to be ndarray, is_unitary is evaluated only after the shape was found
\* right, the work begins only after is_unitary held, and a check that
\* fails ends the call with its own message
C20_ChecksInOrder ==
    /\ pc = "idle" => pc' \in {"check_type", "raised"}
    /\ pc' = "check_shape" => pc = "check_type" /\ U.type = "ndarray"
    /\ pc' = "check_unitary" =>
          pc = "check_shape" /\ U.type = "ndarray" /\ U.shape = RequiredShape(fn)
    /\ pc' \in {"params", "eig"} =>
          /\ pc = "check_unitary"
          /\ U.type = "ndarray" /\ U.shape = RequiredShape(fn)
          /\ is_unitary(U)
    /\ (pc = "check_type" /\ pc' = "exited") =>
          U.type # "ndarray" /\ result'.msg = "Input must be numpy.ndarray"
    /\ (pc = "check_shape" /\ pc' = "exited") =>
          /\ U.shape # RequiredShape(fn)
          /\ result'.msg = (IF fn = "controlled_two_qubit_gate" THEN "Input must be 4x4 matrix"
                                                                ELSE "Input must be 2x2 matrix")
    /\ (pc = "check_unitary" /\ pc' = "exited") =>
          ~is_unitary(U) /\ result'.msg = "Input must be unitary"

\* C20: every function checks the type, then the shape, then unitarity,
\* and stops at the first check that fails, whose error it reports
C20_ValidationOrder == [][C20_ChecksInOrder]_vars

\* a list of the wrong shape was rejected for its type
C20_Witness ==
    /\ fn = "controlled_two_qubit_gate"
    /\ U = AsType(np_eye(2), "list")
    /\ U.shape # RequiredShape(fn)
    /\ pc = "exited"
    /\ result.msg = "Input must be numpy.ndarray"

----------------------------------------------------------------------------
(* C21: a fidelity that is not a number.                                   *)

\* the messages of a failed accuracy check
C21_AccuracyMessages ==
    {"Could not obtain ZYZ decomposition to desired accuracy",
     "Could not obtain controlled-U to desired accuracy"}

\* C21: when fidelity_measure is NaN, 1 - abs(fidelity_measure) is NaN, the
\* comparison with the threshold is false, and the call hands back no
\* circuit: it stands before the comparison or has ended with sys.exit and
\* the message of the accuracy check
C21_NaNFidelityIsAnError ==
    (fidelity_measure # NoFidelity /\ fidelity_measure.t = "nan") =>
        /\ IsNaN(OneMinusAbs(fidelity_measure))
        /\ ~FLess(OneMinusAbs(fidelity_measure), Num(f_acc))
        /\ ~FLess(OneMinusAbs(fidelity_measure), Num(fid_thr))
        /\ pc \in {"verify", "exited"}
        /\ result.kind # "circuit"
        /\ result.qc = NoCircuit
        /\ pc = "exited" =>
              /\ result.kind = "SystemExit"
              /\ result.msg \in C21_AccuracyMessages

\* u3_given_matrix(Pauli-X): phi is NaN, the simulated matrix and the
\* fidelity are NaN, and the call has ended in the accuracy error
C21_Witness ==
    /\ fn = "u3_given_matrix"
    /\ U = PauliX
    /\ pc = "exited"
    /\ IsNaN(params[2])
    /\ unitary.nan
    /\ fidelity_measure.t = "nan"
    /\ result.msg = "Could not obtain ZYZ decomposition to desired accuracy"

=============================================================================
